---- MODULE Spec2Model ----
(***************************************************************************)
(* Model of architecture/max-msp/rnbo.py: the flattening of a Faust JSON   *)
(* "ui" tree into control descriptors (extract_items_info), the            *)
(* construction of the RNBO patch (create_rnbo_patch) and the driver that  *)
(* chains them (gen_faust_rnbo).                                           *)
(***************************************************************************)
EXTENDS Integers, Sequences, FiniteSets, TLC

\* ------------------------------------------------------------------------
\* Bounds
\* ------------------------------------------------------------------------
\* largest number of elements of a "ui" tree handed to extract_items_info
MaxNodes == 3
\* largest number of elements of the "ui" tree of a manifest given to the driver
MaxUiNodes == 2
\* largest "inputs" / "outputs" count of a manifest
MaxIO == 2

\* ------------------------------------------------------------------------
\* JSON input domain
\* ------------------------------------------------------------------------
\* A JSON object is a function from its keys; an absent key is absent from
\* the DOMAIN.  The elements a "ui" tree is built from:
ButtonItem == [type |-> "button", shortname |-> "gate"]
CheckboxItem ==
    [type |-> "checkbox", shortname |-> "mute", init |-> 5, min |-> 2, max |-> 9, step |-> 3]
SliderItem ==
    [type |-> "hslider", shortname |-> "freq", init |-> 5, min |-> 2, max |-> 9, step |-> 3]
NentryItem == [type |-> "nentry", min |-> 1, max |-> 8, step |-> 2]
SliderNoStepItem == [type |-> "vslider", shortname |-> "gain", init |-> 4, min |-> 0, max |-> 7]
GroupItem == [type |-> "vgroup"]
BargraphItem == [type |-> "hbargraph", shortname |-> "level", min |-> 0, max |-> 6, step |-> 1]
UntypedItem == [shortname |-> "raw", min |-> 3, max |-> 4, step |-> 1]

UiElements ==
    { ButtonItem, CheckboxItem, SliderItem, NentryItem, SliderNoStepItem,
      GroupItem, BargraphItem, UntypedItem }

\* All "items" arrays with exactly n elements in total (nested ones included),
\* and all elements whose subtree has exactly n elements.
RECURSIVE UiArrays(_)
RECURSIVE UiTrees(_)
UiArrays(n) ==
    IF n = 0 THEN { <<>> }
    ELSE UNION { { <<t>> \o rest : t \in UiTrees(k), rest \in UiArrays(n - k) } : k \in 1..n }

UiTrees(n) ==
    IF n = 1 THEN UiElements
    ELSE { e @@ [items |-> sub] : e \in UiElements, sub \in UiArrays(n - 1) }

UiArraysUpTo(n) == UNION { UiArrays(k) : k \in 0..n }

\* JSON values of the top-level manifest fields, tagged by their JSON type
JsonArray(a) == [t |-> "array", v |-> a]
JsonNumber(n) == [t |-> "number", v |-> n]
JsonString == [t |-> "string"]

\* the manifests: "ui", "inputs" and "outputs" may each be absent
UiFields(n) ==
    { <<>> } \cup { [ui |-> JsonNumber(0)] } \cup { [ui |-> JsonArray(a)] : a \in UiArraysUpTo(n) }
CountFields(key) ==
    { <<>> } \cup { key :> JsonString } \cup { key :> JsonNumber(n) : n \in 0..MaxIO }
Manifests(n) ==
    { u @@ i @@ o : u \in UiFields(n), i \in CountFields("inputs"), o \in CountFields("outputs") }

\* ------------------------------------------------------------------------
\* Python primitives
\* ------------------------------------------------------------------------
\* key in dict
HasKey(d, key) == key \in DOMAIN d
\* dict.get(key, default)
Get(d, key, default) == IF HasKey(d, key) THEN d[key] ELSE default
\* outcome of a call: a value, or the exception that left it
Return(v) == [exc |-> "none", val |-> v]
Raise(e) == [exc |-> e, val |-> <<>>]

\* ------------------------------------------------------------------------
\* extract_items_info
\* ------------------------------------------------------------------------
\* item_type in ["button", "checkbox"]
IsBooleanType(item_type) == item_type \in {"button", "checkbox"}

\* variant: the branch is chosen by the element's type
HasRangeKeysByType(item) == Get(item, "type", "") \in {"hslider", "vslider", "nentry"}

\* the guard of the "slider and nentry" branch
HasRangeKeys(item) == HasKey(item, "min") /\ HasKey(item, "max") /\ HasKey(item, "step")

\* the descriptor appended for a button or a checkbox
BooleanDescriptor(shortname, item_type) ==
    [shortname |-> shortname, type |-> item_type, init |-> 0, min |-> 0, max |-> 1, step |-> 1]

\* variant: an absent init defaults to the minimum
RangeDescriptorInitMin(item, shortname, item_type) ==
    IF \E key \in {"min", "max", "step"} : ~HasKey(item, key)
    THEN Raise("KeyError")
    ELSE Return([shortname |-> shortname, type |-> item_type,
                 init |-> Get(item, "init", item["min"]),
                 min |-> item["min"], max |-> item["max"], step |-> item["step"]])

\* the descriptor appended by the "slider and nentry" branch; item["min"],
\* item["max"] and item["step"] raise KeyError on an absent key
RangeDescriptor(item, shortname, item_type) ==
    IF \E key \in {"min", "max", "step"} : ~HasKey(item, key)
    THEN Raise("KeyError")
    ELSE Return([shortname |-> shortname, type |-> item_type,
                 init |-> Get(item, "init", 0),
                 min |-> item["min"], max |-> item["max"], step |-> item["step"]])

\* variant: the nested descriptors are put in front of the list
ListExtendFront(info_list, more) == more \o info_list

\* info_list.append(x) and info_list.extend(more)
ListAppend(info_list, x) == Append(info_list, x)
ListExtend(info_list, more) == info_list \o more

\* variant: the range branch is tried before the button and checkbox branch
AppendOwnRangeFirst(info_list, item) ==
    LET shortname == Get(item, "shortname", "")
        item_type == Get(item, "type", "")
    IN  IF HasKey(item, "min") /\ HasKey(item, "max") /\ HasKey(item, "step")
        THEN Return(Append(info_list,
                 [shortname |-> shortname, type |-> item_type,
                  init |-> Get(item, "init", 0),
                  min |-> item["min"], max |-> item["max"], step |-> item["step"]]))
        ELSE IF item_type \in {"button", "checkbox"}
        THEN Return(Append(info_list,
                 [shortname |-> shortname, type |-> item_type,
                  init |-> 0, min |-> 0, max |-> 1, step |-> 1]))
        ELSE Return(info_list)

\* One pass of the body of "for item in ui_items" up to the recursion: the
\* list after the element's own descriptor, if any, has been appended.
AppendOwn(info_list, item) ==
    LET shortname == Get(item, "shortname", "")
        item_type == Get(item, "type", "")
    IN  IF IsBooleanType(item_type)
        THEN Return(ListAppend(info_list, BooleanDescriptor(shortname, item_type)))
        ELSE IF HasRangeKeys(item)
        THEN LET d == RangeDescriptor(item, shortname, item_type)
             IN  IF d.exc # "none" THEN d ELSE Return(ListAppend(info_list, d.val))
        ELSE Return(info_list)

\* extract_from_ui: the loop over ui_items from position k with info_list
\* accumulated so far
RECURSIVE ExtractLoop(_, _, _)
ExtractLoop(ui_items, k, info_list) ==
    IF k > Len(ui_items) THEN Return(info_list)
    ELSE LET item == ui_items[k]
             own == AppendOwn(info_list, item)
         IN  IF own.exc # "none" THEN own
             ELSE IF HasKey(item, "items")
             THEN LET sub == ExtractLoop(item["items"], 1, <<>>)
                  IN  IF sub.exc # "none" THEN sub
                      ELSE ExtractLoop(ui_items, k + 1, ListExtend(own.val, sub.val))
             ELSE ExtractLoop(ui_items, k + 1, own.val)

extract_from_ui(ui_items) == ExtractLoop(ui_items, 1, <<>>)

\* variant: json_data["ui"] without the membership test
extract_items_info_subscript(data) ==
    IF HasKey(data, "ui")
    THEN IF data["ui"].t = "array" THEN extract_from_ui(data["ui"].v) ELSE Raise("TypeError")
    ELSE Raise("KeyError")

\* extract_items_info(json_data); iterating over a "ui" that is not an
\* array raises TypeError
extract_items_info(data) ==
    IF HasKey(data, "ui")
    THEN IF data["ui"].t = "array" THEN extract_from_ui(data["ui"].v) ELSE Raise("TypeError")
    ELSE Return(<<>>)

\* ------------------------------------------------------------------------
\* State
\* ------------------------------------------------------------------------
VARIABLES
    pc,               \* the statement the run is at
    json_file,        \* content of the manifest file
    json_data,        \* the decoded manifest, once loaded
    items_info_list,  \* the descriptors returned by extract_items_info
    num_inputs,       \* json_data.get("inputs", 0)
    num_outputs,      \* json_data.get("outputs", 0)
    boxes,            \* boxes of the top-level patcher
    lines,            \* patchlines of the top-level patcher
    sp_boxes,         \* boxes of the rnbo~ subpatcher
    sp_lines,         \* patchlines of the rnbo~ subpatcher
    i,                \* position of the running for loop
    saves,            \* what patcher.save() wrote, one entry per call
    exc               \* the exception that ended the run, or "none"

vars ==
    << pc, json_file, json_data, items_info_list, num_inputs, num_outputs,
       boxes, lines, sp_boxes, sp_lines, i, saves, exc >>

graph == << boxes, lines, sp_boxes, sp_lines >>

\* ------------------------------------------------------------------------
\* The patcher object model as create_rnbo_patch uses it
\* ------------------------------------------------------------------------
\* add_comment / add_textbox / add_rnbo / add_codebox_tilde: the new box is
\* appended to the patcher's boxes; its id is its position
NewId(bs) == Len(bs) + 1
AddBox(bs, box) == Append(bs, box @@ [id |-> NewId(bs)])
\* variant: the inlet and outlet arguments taken in the other order
AddLineSwapped(ls, src, dst, inlet, outlet) ==
    Append(ls, [src |-> src, outlet |-> inlet, dst |-> dst, inlet |-> outlet])

\* add_line(src_obj, dst_obj, inlet=0, outlet=0)
AddLine(ls, src, dst, inlet, outlet) ==
    Append(ls, [src |-> src, outlet |-> outlet, dst |-> dst, inlet |-> inlet])

\* id of the codebox~ node: the first box added to the subpatcher
codebox == 1

\* variant: only a button gets a toggle
ValueBoxButtonOnly(item) ==
    IF item["type"] = "button"
    THEN [text |-> "toggle"]
    ELSE [text |-> "number~", sig |-> item["init"],
          minimum |-> item["min"], maximum |-> item["max"]]

\* the display box of a descriptor: toggle for button and checkbox,
\* number~ otherwise
ValueBox(item) ==
    IF IsBooleanType(item["type"])
    THEN [text |-> "toggle"]
    ELSE [text |-> "number~", sig |-> item["init"],
          minimum |-> item["min"], maximum |-> item["max"]]

\* the keys the parameter loop subscripts on a descriptor
SubscriptedKeys(item) ==
    IF ~HasKey(item, "shortname") \/ ~HasKey(item, "type") THEN {"shortname", "type"}
    ELSE IF IsBooleanType(item["type"]) THEN {"shortname", "type"}
    ELSE {"shortname", "type", "min", "max", "init"}

\* ------------------------------------------------------------------------
\* Control flow
\* ------------------------------------------------------------------------
\* the statements of gen_faust_rnbo and create_rnbo_patch, in program order
Steps ==
    << "open_codebox", "load_json", "extract", "counts", "create",
       "inputs", "outputs", "params", "save", "done" >>

StepNo(p) == CHOOSE n \in 1..Len(Steps) : Steps[n] = p

\* variant: the patch is saved before the parameter loop
StepAfterSaveEarly(p) ==
    CASE p = "outputs" -> "save"
      [] p = "save" -> "params"
      [] p = "params" -> "done"
      [] OTHER -> Steps[StepNo(p) + 1]

\* the statement after p
StepAfter(p) == Steps[StepNo(p) + 1]

\* an uncaught exception ends the run
Propagate(e) ==
    /\ pc' = "raised"
    /\ exc' = e

\* ------------------------------------------------------------------------
\* gen_faust_rnbo
\* ------------------------------------------------------------------------
Init ==
    /\ pc = "open_codebox"
    /\ json_file \in Manifests(MaxUiNodes)
    /\ json_data = <<>>
    /\ items_info_list = <<>>
    /\ num_inputs = JsonNumber(0)
    /\ num_outputs = JsonNumber(0)
    /\ boxes = <<>>
    /\ lines = <<>>
    /\ sp_boxes = <<>>
    /\ sp_lines = <<>>
    /\ i = 0
    /\ saves = <<>>
    /\ exc = "none"

\* with open(codebox_path) as codebox_file: codebox_code = codebox_file.read()
OpenCodebox ==
    /\ pc = "open_codebox"
    /\ pc' = StepAfter(pc)
    /\ UNCHANGED << json_file, json_data, items_info_list, num_inputs, num_outputs,
                    graph, i, saves, exc >>

\* the code file cannot be opened
OpenCodeboxFails ==
    /\ pc = "open_codebox"
    /\ Propagate("OSError")
    /\ UNCHANGED << json_file, json_data, items_info_list, num_inputs, num_outputs,
                    graph, i, saves >>

\* with open(json_path) as json_file: json_data = json.load(json_file)
LoadJson ==
    /\ pc = "load_json"
    /\ json_data' = json_file
    /\ pc' = StepAfter(pc)
    /\ UNCHANGED << json_file, items_info_list, num_inputs, num_outputs,
                    graph, i, saves, exc >>

\* the manifest cannot be opened
LoadJsonFails ==
    /\ pc = "load_json"
    /\ Propagate("OSError")
    /\ UNCHANGED << json_file, json_data, items_info_list, num_inputs, num_outputs,
                    graph, i, saves >>

\* items_info_list = extract_items_info(json_data)
Extract ==
    /\ pc = "extract"
    /\ LET r == extract_items_info(json_data)
       IN  IF r.exc # "none"
           THEN Propagate(r.exc) /\ UNCHANGED items_info_list
           ELSE /\ items_info_list' = r.val
                /\ pc' = StepAfter(pc)
                /\ UNCHANGED exc
    /\ UNCHANGED << json_file, json_data, num_inputs, num_outputs, graph, i, saves >>

\* num_inputs = json_data.get("inputs", 0); num_outputs = json_data.get("outputs", 0)
Counts ==
    /\ pc = "counts"
    /\ num_inputs' = Get(json_data, "inputs", JsonNumber(0))
    /\ num_outputs' = Get(json_data, "outputs", JsonNumber(0))
    /\ pc' = StepAfter(pc)
    /\ UNCHANGED << json_file, json_data, items_info_list, graph, i, saves, exc >>

\* ------------------------------------------------------------------------
\* create_rnbo_patch
\* ------------------------------------------------------------------------
\* variant: the rnbo~ box is wired to the ezdac~ box
CreateWired ==
    /\ pc = "create"
    /\ boxes' = AddBox(AddBox(AddBox(boxes, [text |-> "comment"]),
                              [text |-> "ezdac~"]),
                       [text |-> "rnbo~"])
    /\ lines' = AddLine(lines, 3, 2, 0, 0)
    /\ sp_boxes' = AddBox(sp_boxes, [text |-> "codebox~"])
    /\ i' = 0
    /\ pc' = StepAfter(pc)
    /\ UNCHANGED << json_file, json_data, items_info_list, num_inputs, num_outputs,
                    sp_lines, saves, exc >>

\* Patcher, add_comment, ezdac~, add_rnbo and the codebox~ of its subpatcher
Create ==
    /\ pc = "create"
    /\ boxes' = AddBox(AddBox(AddBox(boxes, [text |-> "comment"]),
                              [text |-> "ezdac~"]),
                       [text |-> "rnbo~"])
    /\ sp_boxes' = AddBox(sp_boxes, [text |-> "codebox~"])
    /\ i' = 0
    /\ pc' = StepAfter(pc)
    /\ UNCHANGED << json_file, json_data, items_info_list, num_inputs, num_outputs,
                    lines, sp_lines, saves, exc >>

\* range(n) of something that is not an integer
RangeFails ==
    /\ \/ pc = "inputs" /\ num_inputs.t # "number"
       \/ pc = "outputs" /\ num_outputs.t # "number"
    /\ Propagate("TypeError")
    /\ UNCHANGED << json_file, json_data, items_info_list, num_inputs, num_outputs,
                    graph, i, saves >>

\* one pass of "for i in range(num_inputs)"
AddInput ==
    /\ pc = "inputs"
    /\ num_inputs.t = "number"
    /\ i < num_inputs.v
    /\ sp_boxes' = AddBox(sp_boxes, [text |-> "in~", arg |-> i + 1])
    /\ sp_lines' = AddLine(sp_lines, NewId(sp_boxes), codebox, i, 0)
    /\ i' = i + 1
    /\ UNCHANGED << pc, json_file, json_data, items_info_list, num_inputs, num_outputs,
                    boxes, lines, saves, exc >>

\* one pass of "for i in range(num_outputs)"
AddOutput ==
    /\ pc = "outputs"
    /\ num_outputs.t = "number"
    /\ i < num_outputs.v
    /\ sp_boxes' = AddBox(sp_boxes, [text |-> "out~", arg |-> i + 1])
    /\ sp_lines' = AddLine(sp_lines, codebox, NewId(sp_boxes), 0, i)
    /\ i' = i + 1
    /\ UNCHANGED << pc, json_file, json_data, items_info_list, num_inputs, num_outputs,
                    boxes, lines, saves, exc >>

\* one pass of "for item in items_info_list"
AddParam ==
    /\ pc = "params"
    /\ i < Len(items_info_list)
    /\ LET item == items_info_list[i + 1]
       IN  IF \E key \in SubscriptedKeys(item) : ~HasKey(item, key)
           THEN Propagate("KeyError") /\ UNCHANGED << sp_boxes, sp_lines, i >>
           ELSE LET param == NewId(sp_boxes)
                    withParam == AddBox(sp_boxes, [text |-> "set", name |-> item["shortname"]])
                    value == NewId(withParam)
                IN  /\ sp_boxes' = AddBox(withParam, ValueBox(item))
                    /\ sp_lines' = AddLine(AddLine(sp_lines, value, param, 0, 0),
                                           param, codebox, 0, 0)
                    /\ i' = i + 1
                    /\ UNCHANGED << pc, exc >>
    /\ UNCHANGED << json_file, json_data, items_info_list, num_inputs, num_outputs,
                    boxes, lines, saves >>

\* a for loop has run out of elements
LoopEnds ==
    /\ \/ pc = "inputs" /\ num_inputs.t = "number" /\ i >= num_inputs.v
       \/ pc = "outputs" /\ num_outputs.t = "number" /\ i >= num_outputs.v
       \/ pc = "params" /\ i >= Len(items_info_list)
    /\ pc' = StepAfter(pc)
    /\ i' = 0
    /\ UNCHANGED << json_file, json_data, items_info_list, num_inputs, num_outputs,
                    graph, saves, exc >>

\* patcher.save()
Save ==
    /\ pc = "save"
    /\ saves' = Append(saves, [boxes |-> boxes, lines |-> lines,
                               sp_boxes |-> sp_boxes, sp_lines |-> sp_lines])
    /\ pc' = StepAfter(pc)
    /\ UNCHANGED << json_file, json_data, items_info_list, num_inputs, num_outputs,
                    graph, i, exc >>

Next ==
    \/ OpenCodebox
    \/ OpenCodeboxFails
    \/ LoadJson
    \/ LoadJsonFails
    \/ Extract
    \/ Counts
    \/ Create
    \/ RangeFails
    \/ AddInput
    \/ AddOutput
    \/ AddParam
    \/ LoopEnds
    \/ Save

Spec == Init /\ [][Next]_vars

\* ------------------------------------------------------------------------
\* extract_items_info on its own
\* ------------------------------------------------------------------------
InitExtract ==
    /\ pc = "call"
    /\ json_file \in UiFields(MaxNodes)
    /\ json_data = json_file
    /\ items_info_list = <<>>
    /\ num_inputs = JsonNumber(0)
    /\ num_outputs = JsonNumber(0)
    /\ boxes = <<>>
    /\ lines = <<>>
    /\ sp_boxes = <<>>
    /\ sp_lines = <<>>
    /\ i = 0
    /\ saves = <<>>
    /\ exc = "none"

\* a call of extract_items_info(json_data) and its outcome
CallExtract ==
    /\ pc = "call"
    /\ LET r == extract_items_info(json_data)
       IN  /\ items_info_list' = r.val
           /\ exc' = r.exc
    /\ pc' = "returned"
    /\ UNCHANGED << json_file, json_data, num_inputs, num_outputs, graph, i, saves >>

NextExtract == CallExtract

SpecExtract == InitExtract /\ [][NextExtract]_vars

\* ------------------------------------------------------------------------
\* Positions in a "ui" tree
\* ------------------------------------------------------------------------
\* the paths (index sequences) of all elements below an "items" array
RECURSIVE PathsOf(_)
PathsOf(items) ==
    UNION { { <<k>> } \cup
            ( IF "items" \in DOMAIN items[k]
              THEN { <<k>> \o q : q \in PathsOf(items[k]["items"]) }
              ELSE {} ) : k \in 1..Len(items) }

\* the element at path p
RECURSIVE NodeAt(_, _)
NodeAt(items, p) ==
    IF Len(p) = 1 THEN items[p[1]] ELSE NodeAt(items[p[1]]["items"], Tail(p))

\* p is a proper ancestor of q
Ancestor(p, q) == Len(p) < Len(q) /\ SubSeq(q, 1, Len(p)) = p

\* p comes before q in depth-first pre-order: p is an ancestor of q, or at
\* the first index where they differ p goes into the earlier sibling
Before(p, q) ==
    \/ Ancestor(p, q)
    \/ \E n \in 1..Len(p) :
          /\ n <= Len(q)
          /\ SubSeq(p, 1, n - 1) = SubSeq(q, 1, n - 1)
          /\ p[n] < q[n]

\* the "ui" array given to extract_items_info, when there is one
UiGiven == HasKey(json_data, "ui") /\ json_data["ui"].t = "array"
Ui == json_data["ui"].v
TypeOf(e) == IF "type" \in DOMAIN e THEN e["type"] ELSE ""
LabelOf(e) == IF "shortname" \in DOMAIN e THEN e["shortname"] ELSE ""
Boolean(e) == TypeOf(e) = "button" \/ TypeOf(e) = "checkbox"
CarriesRange(e) == {"min", "max", "step"} \subseteq DOMAIN e
\* the elements that yield a descriptor
Qualifying(e) == Boolean(e) \/ CarriesRange(e)
QualPaths == { p \in PathsOf(Ui) : Qualifying(NodeAt(Ui, p)) }
\* the position in the result of the descriptor of the element at path p
Rank(p) == 1 + Cardinality({ q \in QualPaths : Before(q, p) })
Extracted == pc = "returned" /\ UiGiven /\ exc = "none"

\* ------------------------------------------------------------------------
\* Claims about extract_items_info (checked under SpecExtract)
\* ------------------------------------------------------------------------
\* C1: the returned list is exactly the qualifying elements in depth-first
\* pre-order: as many descriptors as qualifying elements, and the descriptor
\* of each qualifying element sits at the position given by the number of
\* qualifying elements that precede it in pre-order.
C1_PreOrder ==
    Extracted =>
        /\ Len(items_info_list) = Cardinality(QualPaths)
        /\ \A p \in QualPaths :
              /\ Rank(p) \in 1..Len(items_info_list)
              /\ items_info_list[Rank(p)].shortname = LabelOf(NodeAt(Ui, p))
              /\ items_info_list[Rank(p)].type = TypeOf(NodeAt(Ui, p))

\* a qualifying element with a qualifying nested item and a qualifying later
\* sibling, all distinguishable
C1_Witness ==
    /\ Extracted
    /\ {<<1>>, <<1, 1>>, <<2>>} \subseteq QualPaths
    /\ LabelOf(NodeAt(Ui, <<1>>)) # LabelOf(NodeAt(Ui, <<1, 1>>))
    /\ LabelOf(NodeAt(Ui, <<1, 1>>)) # LabelOf(NodeAt(Ui, <<2>>))
    /\ LabelOf(NodeAt(Ui, <<1>>)) # LabelOf(NodeAt(Ui, <<2>>))

\* C2: the descriptor of every button or checkbox element has init 0, min 0,
\* max 1 and step 1 whatever the element carries, and keeps its label and type.
C2_BooleanRange ==
    Extracted =>
        \A p \in QualPaths :
            Boolean(NodeAt(Ui, p)) =>
                items_info_list[Rank(p)] =
                    [shortname |-> LabelOf(NodeAt(Ui, p)), type |-> TypeOf(NodeAt(Ui, p)),
                     init |-> 0, min |-> 0, max |-> 1, step |-> 1]

\* a checkbox that carries its own init, min, max and step
C2_Witness ==
    /\ Extracted
    /\ \E p \in QualPaths :
          /\ TypeOf(NodeAt(Ui, p)) = "checkbox"
          /\ CarriesRange(NodeAt(Ui, p))
          /\ NodeAt(Ui, p)["max"] # 1
          /\ items_info_list[Rank(p)].max = 1

\* C3: the descriptor of every non-boolean element that carries min, max and
\* step copies them, takes init from the element or 0 and the label from the
\* element or "".
C3_RangeCopied ==
    Extracted =>
        \A p \in QualPaths :
            LET e == NodeAt(Ui, p)
            IN  ~Boolean(e) =>
                    /\ items_info_list[Rank(p)].min = e["min"]
                    /\ items_info_list[Rank(p)].max = e["max"]
                    /\ items_info_list[Rank(p)].step = e["step"]
                    /\ items_info_list[Rank(p)].init =
                           (IF "init" \in DOMAIN e THEN e["init"] ELSE 0)
                    /\ items_info_list[Rank(p)].shortname =
                           (IF "shortname" \in DOMAIN e THEN e["shortname"] ELSE "")

\* a range element without init and label next to one that has both
C3_Witness ==
    /\ Extracted
    /\ \E p, q \in QualPaths :
          /\ ~Boolean(NodeAt(Ui, p)) /\ ~Boolean(NodeAt(Ui, q))
          /\ DOMAIN NodeAt(Ui, p) \cap {"init", "shortname"} = {}
          /\ {"init", "shortname"} \subseteq DOMAIN NodeAt(Ui, q)
          /\ items_info_list[Rank(p)].init = 0
          /\ items_info_list[Rank(q)].init # 0

\* the range controls: sliders and numeric entries
RangeControl(e) == TypeOf(e) \in {"hslider", "vslider", "nentry"}
IncompletePaths == { p \in PathsOf(Ui) : RangeControl(NodeAt(Ui, p)) /\ ~CarriesRange(NodeAt(Ui, p)) }

\* C6 as stated: a range control lacking min, max or step makes the
\* extraction raise a lookup failure.
C6_Original ==
    (pc = "returned" /\ UiGiven /\ IncompletePaths # {}) => exc = "KeyError"

\* C6 amended: a range control lacking min, max or step raises nothing; it
\* is skipped, so the returned list has exactly one range-control descriptor
\* per complete range control.
C6_IncompleteSkipped ==
    (pc = "returned" /\ UiGiven) =>
        /\ exc = "none"
        /\ Cardinality({ k \in 1..Len(items_info_list) :
                           items_info_list[k].type \in {"hslider", "vslider", "nentry"} })
             = Cardinality({ p \in PathsOf(Ui) :
                               RangeControl(NodeAt(Ui, p)) /\ CarriesRange(NodeAt(Ui, p)) })

\* a slider without step, holding a complete slider as nested item
C6_Witness ==
    /\ pc = "returned" /\ UiGiven
    /\ \E p \in IncompletePaths : \E q \in QualPaths :
          Ancestor(p, q) /\ RangeControl(NodeAt(Ui, q))

\* C7: every descriptor's kind is button, checkbox, slider or numeric entry;
\* nothing else yields a descriptor, even when it carries min, max and step.
C7_KindsOnly ==
    pc = "returned" =>
        \A k \in 1..Len(items_info_list) :
            items_info_list[k].type \in {"button", "checkbox", "hslider", "vslider", "nentry"}

\* ------------------------------------------------------------------------
\* Claims about create_rnbo_patch and gen_faust_rnbo (checked under Spec)
\* ------------------------------------------------------------------------
\* positions of the subpatcher boxes with a given text, and of the
\* patchlines that touch a given box
BoxesOf(text) == { n \in 1..Len(sp_boxes) : sp_boxes[n].text = text }
LinesAt(id) == { n \in 1..Len(sp_lines) : sp_lines[n].src = id \/ sp_lines[n].dst = id }
CodeNodes == BoxesOf("codebox~")
Displays == BoxesOf("toggle") \cup BoxesOf("number~")
Completed == pc = "done"

\* C4: after create_rnbo_patch there are exactly num_inputs input stubs and
\* num_outputs output stubs; the stub of channel n has exactly one patchline,
\* into inlet n-1 (from outlet n-1) of the code node.
C4_Stubs ==
    Completed =>
        /\ Cardinality(BoxesOf("in~")) = num_inputs.v
        /\ Cardinality(BoxesOf("out~")) = num_outputs.v
        /\ \A n \in 1..num_inputs.v :
              \E b \in BoxesOf("in~") :
                  /\ sp_boxes[b].arg = n
                  /\ \A b2 \in BoxesOf("in~") : sp_boxes[b2].arg = n => b2 = b
                  /\ Cardinality(LinesAt(sp_boxes[b].id)) = 1
                  /\ \A l \in LinesAt(sp_boxes[b].id) :
                        /\ sp_lines[l].src = sp_boxes[b].id
                        /\ sp_lines[l].dst \in { sp_boxes[c].id : c \in CodeNodes }
                        /\ sp_lines[l].inlet = n - 1
        /\ \A n \in 1..num_outputs.v :
              \E b \in BoxesOf("out~") :
                  /\ sp_boxes[b].arg = n
                  /\ \A b2 \in BoxesOf("out~") : sp_boxes[b2].arg = n => b2 = b
                  /\ Cardinality(LinesAt(sp_boxes[b].id)) = 1
                  /\ \A l \in LinesAt(sp_boxes[b].id) :
                        /\ sp_lines[l].dst = sp_boxes[b].id
                        /\ sp_lines[l].src \in { sp_boxes[c].id : c \in CodeNodes }
                        /\ sp_lines[l].outlet = n - 1

\* two input and two output stubs, next to controls
C4_Witness ==
    /\ Completed
    /\ num_inputs.v = 2 /\ num_outputs.v = 2
    /\ Cardinality(BoxesOf("in~")) = 2 /\ Cardinality(BoxesOf("out~")) = 2
    /\ Len(items_info_list) > 0

\* the setter boxes in the order they were added
Setters == SelectSeq(sp_boxes, LAMBDA b : b.text = "set")

\* C5: after create_rnbo_patch the j-th descriptor has its own setter and
\* its own display, one patchline display -> setter and one patchline
\* setter -> code node; the display is a toggle exactly for button and
\* checkbox, and otherwise a number~ with the descriptor's init, min and max.
C5_ControlPairs ==
    Completed =>
        /\ Len(Setters) = Len(items_info_list)
        /\ Cardinality(Displays) = Len(items_info_list)
        /\ \A j \in 1..Len(items_info_list) :
              LET d == items_info_list[j]
                  s == Setters[j].id
                  into == { l \in LinesAt(s) : sp_lines[l].dst = s }
                  out == { l \in LinesAt(s) : sp_lines[l].src = s }
              IN  /\ Setters[j].name = d.shortname
                  /\ Cardinality(into) = 1
                  /\ Cardinality(out) = 1
                  /\ \A l \in out : sp_lines[l].dst \in { sp_boxes[c].id : c \in CodeNodes }
                  /\ \A l \in into :
                        \E v \in Displays :
                            /\ sp_boxes[v].id = sp_lines[l].src
                            /\ LinesAt(sp_boxes[v].id) = {l}
                            /\ (sp_boxes[v].text = "toggle") <=> (d.type \in {"button", "checkbox"})
                            /\ sp_boxes[v].text = "number~" =>
                                  /\ sp_boxes[v].sig = d.init
                                  /\ sp_boxes[v].minimum = d.min
                                  /\ sp_boxes[v].maximum = d.max

\* two descriptors with the same label, each with its own setter and display
C5_Witness ==
    /\ Completed
    /\ Len(items_info_list) = 2
    /\ items_info_list[1].shortname = items_info_list[2].shortname
    /\ Len(Setters) = 2
    /\ Cardinality(Displays) = 2

\* a manifest field that is there but has the wrong JSON type
Malformed ==
    \/ HasKey(json_file, "ui") /\ json_file["ui"].t # "array"
    \/ HasKey(json_file, "inputs") /\ json_file["inputs"].t # "number"
    \/ HasKey(json_file, "outputs") /\ json_file["outputs"].t # "number"
Lacking == { key \in {"ui", "inputs", "outputs"} : key \notin DOMAIN json_file }

\* C8 as stated: a manifest lacking ui, inputs or outputs makes
\* gen_faust_rnbo fail, so a run that completes had all three.
C8_Original ==
    Completed => Lacking = {}

\* C8 amended: a lacking field is replaced by a default (no descriptors for
\* ui, 0 for inputs and outputs) and the patch is built and written with it;
\* a lookup or type error comes only from a field that is there and malformed.
C8_MissingDefaulted ==
    /\ (pc = "raised" /\ exc \in {"KeyError", "TypeError"}) => Malformed
    /\ Completed =>
          /\ "ui" \in Lacking => (items_info_list = <<>> /\ BoxesOf("set") = {})
          /\ "inputs" \in Lacking => BoxesOf("in~") = {}
          /\ "outputs" \in Lacking => BoxesOf("out~") = {}
          /\ Len(saves) = 1

\* a run that completed on a manifest lacking all three fields
C8_Witness ==
    /\ Completed
    /\ Lacking = {"ui", "inputs", "outputs"}
    /\ Len(saves) = 1

\* C9: after create_rnbo_patch the top level holds one ezdac~, one rnbo~ and
\* one comment and no patchline; the subpatcher holds one code node,
\* 1 + num_inputs + num_outputs + 2k boxes and num_inputs + num_outputs + 2k
\* patchlines, each touching the code node or going from a display to a setter.
C9_Topology ==
    Completed =>
        /\ Len(boxes) = 3
        /\ \A t \in {"comment", "ezdac~", "rnbo~"} :
              Cardinality({ n \in 1..Len(boxes) : boxes[n].text = t }) = 1
        /\ lines = <<>>
        /\ Cardinality(CodeNodes) = 1
        /\ Len(sp_boxes) = 1 + num_inputs.v + num_outputs.v + 2 * Len(items_info_list)
        /\ Len(sp_lines) = num_inputs.v + num_outputs.v + 2 * Len(items_info_list)
        /\ \A l \in 1..Len(sp_lines) :
              \/ sp_lines[l].src \in { sp_boxes[c].id : c \in CodeNodes }
              \/ sp_lines[l].dst \in { sp_boxes[c].id : c \in CodeNodes }
              \/ /\ sp_lines[l].src \in { sp_boxes[v].id : v \in Displays }
                 /\ sp_lines[l].dst \in { sp_boxes[v].id : v \in BoxesOf("set") }

\* a patch with inputs, outputs and controls
C9_Witness ==
    /\ Completed
    /\ num_inputs.v = 1 /\ num_outputs.v = 2 /\ Len(items_info_list) = 2
    /\ Len(sp_boxes) = 8

\* the phase a statement belongs to: read code file, read manifest, extract
\* descriptors, read the counts, build graph, serialize, finished
Phase(p) ==
    CASE p = "open_codebox" -> 1
      [] p = "load_json" -> 2
      [] p = "extract" -> 3
      [] p = "counts" -> 4
      [] p \in {"create", "inputs", "outputs", "params"} -> 5
      [] p = "save" -> 6
      [] p = "done" -> 7
      [] OTHER -> 8

\* C10: the steps run in the order read code file, read manifest, extract,
\* build, serialize; the patch is written at most once, with the complete
\* graph, nothing is added after it, and a run that raised wrote nothing.
C10_SaveLast ==
    /\ [](Len(saves) <= 1)
    /\ [](exc # "none" => saves = <<>>)
    /\ [][ /\ Phase(pc') \in {Phase(pc), Phase(pc) + 1} \/ pc' = "raised"
           /\ saves # <<>> => graph' = graph
           /\ saves' # saves =>
                 /\ Phase(pc) = 6
                 /\ Len(boxes) = 3
                 /\ Len(sp_boxes) = 1 + num_inputs.v + num_outputs.v + 2 * Len(items_info_list)
                 /\ Len(sp_lines) = num_inputs.v + num_outputs.v + 2 * Len(items_info_list)
                 /\ saves' = << [boxes |-> boxes, lines |-> lines,
                                 sp_boxes |-> sp_boxes, sp_lines |-> sp_lines] >>
         ]_vars

\* a run that wrote a patch with controls
C10_Witness ==
    /\ Completed
    /\ Len(saves) = 1
    /\ Len(saves[1].sp_boxes) = 1 + num_inputs.v + num_outputs.v + 2 * Len(items_info_list)
    /\ Len(items_info_list) = 2 /\ num_inputs.v = 1

====
